---- MODULE Spec2Model ----
(***************************************************************************)
(* ISO-11649 creditor references (crate iso_11649, src/src/lib.rs).        *)
(*                                                                         *)
(* A Rust &str is modelled as the sequence of its UTF-8 bytes, because     *)
(* len(), starts_with() and the slices [..2], [2..4], [4..] of the source  *)
(* all count bytes.  The u128 accumulator of gen_checksum / is_valid is    *)
(* modelled as 8 limbs of 16 bits, so that it keeps its width.             *)
(***************************************************************************)
EXTENDS Integers, Sequences, FiniteSets, TLC

(***************************************************************************)
(* Characters                                                              *)
(***************************************************************************)
DigitChars == <<"0", "1", "2", "3", "4", "5", "6", "7", "8", "9">>
UpperChars == <<"A", "B", "C", "D", "E", "F", "G", "H", "I", "J", "K", "L", "M",
                "N", "O", "P", "Q", "R", "S", "T", "U", "V", "W", "X", "Y", "Z">>
LowerChars == <<"a", "b", "c", "d", "e", "f", "g", "h", "i", "j", "k", "l", "m",
                "n", "o", "p", "q", "r", "s", "t", "u", "v", "w", "x", "y", "z">>

\* The UTF-8 encoding of the characters the inputs are written with.  "ae"
\* names U+00E4 (a with diaeresis, two bytes) and "euro" U+20AC (three bytes).
Utf8 == [c \in {DigitChars[i] : i \in 1..10} |->
            <<47 + (CHOOSE i \in 1..10 : DigitChars[i] = c)>>]
        @@ [c \in {UpperChars[i] : i \in 1..26} |->
            <<64 + (CHOOSE i \in 1..26 : UpperChars[i] = c)>>]
        @@ [c \in {LowerChars[i] : i \in 1..26} |->
            <<96 + (CHOOSE i \in 1..26 : LowerChars[i] = c)>>]
        @@ (" " :> <<32>>) @@ ("+" :> <<43>>) @@ ("-" :> <<45>>)
        @@ ("@" :> <<64>>) @@ ("_" :> <<95>>)
        @@ ("ae" :> <<195, 164>>) @@ ("euro" :> <<226, 130, 172>>)

RECURSIVE Str(_)
\* The bytes of the string written as the tuple of characters cs.
Str(cs) == IF cs = <<>> THEN <<>> ELSE Utf8[Head(cs)] \o Str(Tail(cs))

Ord(c) == Utf8[c][1]

\* '0'..='9', 'A'..='Z', 'a'..='z' as ranges of byte values.
IsDigit(b) == b >= Ord("0") /\ b <= Ord("9")
IsUpper(b) == b >= Ord("A") /\ b <= Ord("Z")
IsLower(b) == b >= Ord("a") /\ b <= Ord("z")

IDENTIFIER == Str(<<"R", "F">>)
GEN_PREFIX == Str(<<"R", "F", "0", "0">>)

DIGIT_CONVERT_LOWCASE == 10 - Ord("a")
DIGIT_CONVERT_NUMBER == 0 - Ord("0")
DIGIT_CONVERT_UPCASE == 10 - Ord("A")

(***************************************************************************)
(* String primitives of the standard library, on byte sequences            *)
(***************************************************************************)
\* str::is_char_boundary: 0 and len are boundaries, and otherwise a byte
\* that is not a UTF-8 continuation byte (0x80..0xBF).
is_char_boundary(s, index) ==
    \/ index = 0
    \/ index = Len(s)
    \/ /\ index < Len(s)
       /\ ~(s[index + 1] >= 128 /\ s[index + 1] <= 191)

starts_with(s, prefix) ==
    Len(s) >= Len(prefix) /\ SubSeq(s, 1, Len(prefix)) = prefix

\* s[from..]
SliceFrom(s, from) == SubSeq(s, from + 1, Len(s))

\* Error message of core::num::ParseIntError for IntErrorKind::InvalidDigit.
INVALID_DIGIT_MSG ==
    Str(<<"i", "n", "v", "a", "l", "i", "d", " ", "d", "i", "g", "i", "t", " ",
          "f", "o", "u", "n", "d", " ", "i", "n", " ", "s", "t", "r", "i", "n", "g">>)

RECURSIVE DecimalValue(_)
DecimalValue(s) ==
    IF s = <<>> THEN 0
    ELSE 10 * DecimalValue(SubSeq(s, 1, Len(s) - 1)) + (s[Len(s)] - Ord("0"))

\* str::parse::<u8> of the two bytes of the checksum slot: an optional '+',
\* then decimal digits only.
parse_u8(s) ==
    LET ds == IF Len(s) > 1 /\ s[1] = Ord("+") THEN Tail(s) ELSE s
    IN  IF ds # <<>> /\ (\A i \in 1..Len(ds) : IsDigit(ds[i])) /\ Len(ds) <= 2
        THEN [ok |-> TRUE, val |-> DecimalValue(ds)]
        ELSE [ok |-> FALSE, val |-> 0]

\* Format02 without the zero padding ("{}" for "{:02}")
Format02Unpadded(n) ==
    IF n < 10 THEN <<Ord("0") + n>>
    ELSE <<Ord("0") + (n \div 10), Ord("0") + (n % 10)>>

\* format!("{:02}", n) of a u8
Format02(n) ==
    IF n < 100 THEN <<Ord("0") + (n \div 10), Ord("0") + (n % 10)>>
    ELSE <<Ord("0") + (n \div 100), Ord("0") + ((n \div 10) % 10), Ord("0") + (n % 10)>>

(***************************************************************************)
(* u128 arithmetic: 8 little-endian limbs of 16 bits                       *)
(*                                                                         *)
(* A product or a sum is first formed limb by limb (a column per limb,     *)
(* each well below 2^31) and then carried once from the lowest limb up;    *)
(* the carry out of the highest limb is the overflow, and dropping it is   *)
(* the wrap-around modulo 2^128.                                           *)
(***************************************************************************)
LimbBase == 2 ^ 16
NLimbs == 128 \div 16

\* The u128 of a number below 2^16.
U128(n) == <<n, 0, 0, 0, 0, 0, 0, 0>>

RECURSIVE CarryOut(_, _)
\* The carry out of the columns 1..j.
CarryOut(cols, j) ==
    IF j = 0 THEN 0 ELSE (cols[j] + CarryOut(cols, j - 1)) \div LimbBase

\* The u128 the columns add up to, wrapped, and whether it overflowed.
Carried(cols) ==
    [val |-> <<cols[1] % LimbBase,
               (cols[2] + CarryOut(cols, 1)) % LimbBase,
               (cols[3] + CarryOut(cols, 2)) % LimbBase,
               (cols[4] + CarryOut(cols, 3)) % LimbBase,
               (cols[5] + CarryOut(cols, 4)) % LimbBase,
               (cols[6] + CarryOut(cols, 5)) % LimbBase,
               (cols[7] + CarryOut(cols, 6)) % LimbBase,
               (cols[8] + CarryOut(cols, 7)) % LimbBase>>,
     overflow |-> CarryOut(cols, NLimbs) # 0]

\* x * k for a small k
U128MulSmall(x, k) ==
    Carried(<<x[1] * k, x[2] * k, x[3] * k, x[4] * k,
              x[5] * k, x[6] * k, x[7] * k, x[8] * k>>)

RECURSIVE ModLimbs(_, _, _)
\* The limbs j..NLimbs of x, as a number, modulo m.
ModLimbs(x, m, j) ==
    IF j > NLimbs THEN 0 ELSE (ModLimbs(x, m, j + 1) * LimbBase + x[j]) % m

\* x % m for a small m
U128Mod(x, m) == ModLimbs(x, m, 1)

RECURSIVE Pow10(_)
\* 10u128.pow(i): the wrapped power and whether it overflowed.  Four factors
\* of 10 are taken at a time (10^i = 10^(i - 4) * 10^4), which keeps a limb
\* product below 2^31; the power overflows exactly when 10^i does not fit.
Pow10(i) ==
    IF i = 0 THEN [val |-> U128(1), overflow |-> FALSE]
    ELSE LET lower == IF i >= 4 THEN Pow10(i - 4) ELSE Pow10(i - 1)
             p == U128MulSmall(lower.val, IF i >= 4 THEN 10000 ELSE 10)
         IN  [val |-> p.val, overflow |-> lower.overflow \/ p.overflow]

\* A reference the checks approve has at most 25 characters, each of at most
\* two digits.
MaxCheckDigits == 2 * 25

\* POW10[i + 1] is 10u128.pow(i), tabulated once.
POW10 == SubSeq([i \in 1..MaxCheckDigits |-> Pow10(i - 1)], 1, MaxCheckDigits)

(***************************************************************************)
(* Results: Result<RfCreditorReference, ParseError>, or a panic            *)
(***************************************************************************)
ParseErrors == {"InvalidCharacter", "InvalidChecksum", "InvalidFormat", "InvalidIdentifier"}

\* Ok(RfCreditorReference { checksum, creditor_reference })
Ok(checksum, creditor_reference) ==
    [kind |-> "Ok", err |-> "", payload |-> <<>>,
     checksum |-> checksum, creditor_reference |-> creditor_reference]

\* Err(ParseError::<err>(payload))
Err(err, payload) ==
    [kind |-> "Err", err |-> err, payload |-> payload,
     checksum |-> 0, creditor_reference |-> <<>>]

\* The call does not return: a slice off a char boundary, or an arithmetic
\* overflow in a build with overflow checks.
Panic ==
    [kind |-> "Panic", err |-> "", payload |-> <<>>,
     checksum |-> 0, creditor_reference |-> <<>>]

\* No call made yet.
NoResult ==
    [kind |-> "None", err |-> "", payload |-> <<>>,
     checksum |-> 0, creditor_reference |-> <<>>]

(***************************************************************************)
(* The functions of RfCreditorReference                                    *)
(***************************************************************************)
convert_electronic(reference) == SelectSeq(reference, LAMBDA b : b # Ord(" "))

\* The closure of check_reference's find: the character is none of
\* '0'..='9', 'A'..='Z', 'a'..='z'.  Every byte of a non-ASCII character is
\* >= 0x80, so the test on characters is a test on bytes.
NotAlphanumeric(b) == ~(IsDigit(b) \/ IsUpper(b) \/ IsLower(b))

\* check_reference with the identifier looked at before the length
check_reference_identifier_first(ref) ==
    LET reference == convert_electronic(ref)
    IN  IF Len(reference) >= 2 /\ ~is_char_boundary(reference, 2)
        THEN Panic
        ELSE IF Len(reference) < 2 \/ SubSeq(reference, 1, 2) # IDENTIFIER
        THEN Err("InvalidIdentifier", reference)
        ELSE IF ~(Len(reference) > 4 /\ Len(reference) <= 25)
        THEN Err("InvalidFormat", reference)
        ELSE IF ~is_char_boundary(reference, 4)
        THEN Panic
        ELSE IF \E i \in 5..Len(reference) : NotAlphanumeric(reference[i])
        THEN Err("InvalidCharacter", reference)
        ELSE Ok(0, <<>>)

\* check_reference, lines 237-253.  A slice panics when its bound is not on
\* a char boundary.
check_reference(ref) ==
    LET reference == convert_electronic(ref)
    IN  IF ~(Len(reference) > 4 /\ Len(reference) <= 25)
        THEN Err("InvalidFormat", reference)
        ELSE IF ~is_char_boundary(reference, 2)
        THEN Panic
        ELSE IF SubSeq(reference, 1, 2) # IDENTIFIER
        THEN Err("InvalidIdentifier", reference)
        ELSE IF ~is_char_boundary(reference, 4)
        THEN Panic
        ELSE IF \E i \in 5..Len(reference) : NotAlphanumeric(reference[i])
        THEN Err("InvalidCharacter", reference)
        ELSE Ok(0, <<>>)

\* The digits one character maps to; <<-1>> stands for None.
CharDigits(c) ==
    IF IsDigit(c) THEN <<c + DIGIT_CONVERT_NUMBER>>
    ELSE IF IsUpper(c)
    THEN LET n == c + DIGIT_CONVERT_UPCASE
             t == n \div 10
         IN  <<t, n - t * 10>>
    ELSE IF IsLower(c)
    THEN LET n == c + DIGIT_CONVERT_LOWCASE
             t == n \div 10
         IN  <<t, n - t * 10>>
    ELSE <<-1>>

RECURSIVE FlatDigits(_, _, _)
\* The digits of the characters lo..hi of s, in order.
FlatDigits(s, lo, hi) ==
    IF lo > hi THEN <<>>
    ELSE IF lo = hi THEN CharDigits(s[lo])
    ELSE FlatDigits(s, lo, (lo + hi) \div 2) \o FlatDigits(s, (lo + hi) \div 2 + 1, hi)

\* Called only on strings check_reference approved, so 4 is a char boundary.
gen_check_digits(electronic_reference) ==
    LET rotated == SliceFrom(electronic_reference, 4) \o SubSeq(electronic_reference, 1, 4)
    IN  IF \E i \in 1..Len(rotated) : CharDigits(rotated[i]) = <<-1>>
        THEN [ok |-> FALSE, digits |-> <<>>]
        ELSE [ok |-> TRUE, digits |-> FlatDigits(rotated, 1, Len(rotated))]

RECURSIVE Column(_, _, _, _)
\* Limb j of the products (n as u128) * 10u128.pow(i as u32) of the digits
\* lo..hi, added up without carrying; the digit at position k (from 1) has
\* the index i = Len - k from the end.
Column(check_digits, j, lo, hi) ==
    IF lo > hi THEN 0
    ELSE IF lo = hi THEN check_digits[lo] * POW10[Len(check_digits) - lo + 1].val[j]
    ELSE Column(check_digits, j, lo, (lo + hi) \div 2)
         + Column(check_digits, j, (lo + hi) \div 2 + 1, hi)

\* check_digits.iter().rev().enumerate()
\*     .map(|(i, &n)| (n as u128) * 10u128.pow(i as u32)).sum::<u128>()
\* in u128: the wrapped sum, and whether an operation overflowed.  The highest
\* power taken is 10.pow(Len - 1); when the powers fit, every product and
\* every partial sum is at most the total, so one of them overflows exactly
\* when the total does.
weighted_sum(check_digits) ==
    LET n == Len(check_digits)
        total(sum) ==
            [val |-> sum.val,
             overflow |-> sum.overflow \/ (n > 0 /\ POW10[n].overflow)]
    IN  total(Carried(<<Column(check_digits, 1, 1, n), Column(check_digits, 2, 1, n),
                        Column(check_digits, 3, 1, n), Column(check_digits, 4, 1, n),
                        Column(check_digits, 5, 1, n), Column(check_digits, 6, 1, n),
                        Column(check_digits, 7, 1, n), Column(check_digits, 8, 1, n)>>))

\* overflow_checks: the build panics on arithmetic overflow (debug profile);
\* otherwise the arithmetic wraps (release profile).
gen_checksum(check_digits, overflow_checks) ==
    LET checksum_chars(checksum) ==
            [panic |-> FALSE, checksum |-> checksum,
             chars |-> <<checksum \div 10 + 48,
                         (checksum - (checksum \div 10) * 10) + 48>>]
        checksum_of(sum) ==
            IF sum.overflow /\ overflow_checks
            THEN [panic |-> TRUE, checksum |-> 0, chars |-> <<>>]
            ELSE checksum_chars(98 - U128Mod(sum.val, 97))
    IN  checksum_of(weighted_sum(check_digits))

is_valid(check_digits, overflow_checks) ==
    LET check_of(sum) ==
            IF sum.overflow /\ overflow_checks
            THEN [panic |-> TRUE, valid |-> FALSE]
            ELSE [panic |-> FALSE, valid |-> (U128Mod(sum.val, 97) = 1)]
    IN  check_of(weighted_sum(check_digits))

\* four_elemented_ref without the test i != 0: a space before the first
\* character too.
four_elemented_ref_from_zero(body) ==
    LET RECURSIVE go(_)
        go(i) ==
            IF i >= Len(body) THEN <<>>
            ELSE (IF i % 4 = 0 THEN <<Ord(" "), body[i + 1]>> ELSE <<body[i + 1]>>)
                 \o go(i + 1)
    IN  go(0)

\* reference[4..].chars().enumerate().flat_map(..): a space before every
\* character whose index is a non-zero multiple of 4.
four_elemented_ref(body) ==
    LET RECURSIVE go(_)
        go(i) ==
            IF i >= Len(body) THEN <<>>
            ELSE (IF i # 0 /\ i % 4 = 0 THEN <<Ord(" "), body[i + 1]>> ELSE <<body[i + 1]>>)
                 \o go(i + 1)
    IN  go(0)

\* The steps of parse_str in the order of the code, each handing what it
\* computed to the next.
parse_str(ref, overflow_checks) ==
    LET reference == convert_electronic(ref)
        valid_reference(checksum) ==
            Ok(checksum,
               IDENTIFIER \o Format02(checksum) \o <<Ord(" ")>>
                   \o four_elemented_ref(SliceFrom(reference, 4)))
        validated(checksum, valid) ==
            IF valid.panic THEN Panic
            ELSE IF valid.valid THEN valid_reference(checksum)
            ELSE Err("InvalidChecksum", reference)
        with_check_digits(checksum, check_digits) ==
            IF ~check_digits.ok THEN Err("InvalidCharacter", reference)
            ELSE validated(checksum, is_valid(check_digits.digits, overflow_checks))
        with_checksum(checksum) ==
            IF ~checksum.ok THEN Err("InvalidChecksum", INVALID_DIGIT_MSG)
            ELSE with_check_digits(checksum.val, gen_check_digits(reference))
        with_checked(checked) ==
            IF checked.kind # "Ok" THEN checked
            ELSE with_checksum(parse_u8(SubSeq(reference, 3, 4)))
    IN  with_checked(check_reference(ref))

to_electronic_string(self) == convert_electronic(self.creditor_reference)

\* Display / From<&RfCreditorReference> for String
to_string(self) == self.creditor_reference

\* try_new, lines 218-225: the reference with the placeholder checksum "00".
placeholder_reference(reference) ==
    IF Len(reference) > Len(GEN_PREFIX) /\ starts_with(reference, GEN_PREFIX)
    THEN convert_electronic(reference)
    ELSE IF Len(reference) > Len(IDENTIFIER) /\ starts_with(reference, IDENTIFIER)
    THEN GEN_PREFIX \o SliceFrom(convert_electronic(reference), 2)
    ELSE GEN_PREFIX \o convert_electronic(reference)

\* String::replace_range(2..4, with)
replace_checksum(s, with) == SubSeq(s, 1, 2) \o with \o SliceFrom(s, 4)

\* try_new up to the substitution of the generated checksum, lines 217-231:
\* an early return (or NoResult), and what gen_checksum was given and gave.
try_new_generation(reference, overflow_checks) ==
    LET electronic_reference == placeholder_reference(reference)
        early(r) == [early |-> r, check_digits |-> <<>>, checksum |-> 0,
                     electronic_reference |-> <<>>]
        with_checksum(check_digits, checksum) ==
            IF checksum.panic THEN early(Panic)
            ELSE [early |-> NoResult, check_digits |-> check_digits,
                  checksum |-> checksum.checksum,
                  electronic_reference |->
                      replace_checksum(electronic_reference, checksum.chars)]
        with_check_digits(check_digits) ==
            IF ~check_digits.ok
            THEN early(Err("InvalidCharacter", electronic_reference))
            ELSE with_checksum(check_digits.digits,
                               gen_checksum(check_digits.digits, overflow_checks))
        with_checked(checked) ==
            IF checked.kind # "Ok" THEN early(checked)
            ELSE with_check_digits(gen_check_digits(electronic_reference))
    IN  with_checked(check_reference(electronic_reference))

\* try_new from the substitution on, lines 231-233
try_new_parse(generation, overflow_checks) ==
    IF generation.early.kind # "None" THEN generation.early
    ELSE parse_str(generation.electronic_reference, overflow_checks)

try_new(reference, overflow_checks) ==
    try_new_parse(try_new_generation(reference, overflow_checks), overflow_checks)

(***************************************************************************)
(* Inputs                                                                  *)
(***************************************************************************)
\* Bodies have up to MaxBody characters (21 is the longest a reference may
\* have), free strings up to MaxFree characters.
MaxBody == 22
MaxFree == 5

\* The first n characters of the pattern p repeated.
Take(p, n) == [i \in 1..n |-> p[((i - 1) % Len(p)) + 1]]

\* Bodies of the tests' references, and the body of the largest digits.
Patterns ==
    { Str(<<"5","3","9","0","0","7","5","4","7","0","3","4","9","2","8","3","0","1","2","3","4">>),
      Str(<<"A","B","C","D","0","7","5","4","e","f","g","h">>),
      Str(<<"Z">>) }

Bodies == {Take(p, n) : p \in Patterns, n \in 1..MaxBody}

\* The ways the tests' references are spaced, and two more.
SpaceStyles == {"electronic", "printable", "padded", "after_identifier", "trailing"}

Spaced(s, style) ==
    LET printable == four_elemented_ref(s)
    IN  CASE style = "electronic" -> s
          [] style = "printable" -> printable
          [] style = "padded" -> <<Ord(" ")>> \o printable \o <<Ord(" ")>>
          [] style = "after_identifier" ->
                 IF Len(s) < 2 THEN s \o <<Ord(" ")>>
                 ELSE SubSeq(s, 1, 2) \o <<Ord(" ")>> \o SliceFrom(s, 2)
          [] style = "trailing" -> s \o <<Ord(" ")>>

Prefixes == {<<>>, IDENTIFIER, GEN_PREFIX}

TryNewInputs ==
    {Spaced(prefix \o body, style) :
        prefix \in Prefixes, body \in Bodies, style \in SpaceStyles}

\* The free strings: every string of 1..n of these characters.
FreeChars == {"R", "F", "1", "@"}

RECURSIVE FreeStrings(_)
FreeStrings(n) ==
    IF n = 0 THEN {<<>>}
    ELSE {<<c>> \o s : c \in FreeChars, s \in FreeStrings(n - 1)}

\* Every checksum slot of two digits, and slots that are no number.
Slots ==
    {<<a, b>> : a \in {DigitChars[i] : i \in 1..10}, b \in {DigitChars[i] : i \in 1..10}}
    \cup {<<"A", "B">>, <<"+", "5">>, <<"-", "5">>, <<"ae">>, <<"1", "ae">>}

MaxSlotBody == 3

ParseStrInputs ==
    {IDENTIFIER \o Str(slot) \o body :
        slot \in Slots, body \in {b \in Bodies : Len(b) <= MaxSlotBody}}
    \cup UNION {{Str(s) : s \in FreeStrings(n)} : n \in 1..MaxFree}
    \cup {Spaced(Str(<<"R","F","1","8">>) \o body, style) :
            body \in Bodies, style \in SpaceStyles}
    \cup {Str(<<"R","ae","1","2","3">>), Str(<<"R","F","1","8","5","ae","9">>),
          Str(<<"euro","R","F","1","8">>)}

(***************************************************************************)
(* The state machine: a build of the crate, a first call of parse_str or   *)
(* try_new, and a second call on what the first returned or was given      *)
(***************************************************************************)
VARIABLES
    checks,     \* whether the build has overflow checks (debug) or not (release)
    op,         \* the first call: "none", "parse_str" or "try_new"
    input,      \* its argument
    parsed,     \* the string parse_str worked on, given or substituted by try_new
    generated,  \* what gen_checksum was given and gave in try_new
    result,     \* what the first call returned
    second      \* the second call: its kind, its argument and what it returned

vars == <<checks, op, input, parsed, generated, result, second>>

NotGenerated ==
    [early |-> NoResult, check_digits |-> <<>>, checksum |-> 0,
     electronic_reference |-> <<>>]

NoSecond == [op |-> "none", input |-> <<>>, result |-> NoResult]

Init ==
    /\ checks \in BOOLEAN
    /\ op = "none"
    /\ input = <<>>
    /\ parsed = <<>>
    /\ generated = NotGenerated
    /\ result = NoResult
    /\ second = NoSecond

\* RfCreditorReference::parse_str(s), also reached by new and from_str
ParseStr(s) ==
    /\ op = "none"
    /\ op' = "parse_str"
    /\ input' = s
    /\ parsed' = s
    /\ result' = parse_str(s, checks)
    /\ UNCHANGED <<checks, generated, second>>

\* RfCreditorReference::try_new(s)
TryNew(s) ==
    /\ op = "none"
    /\ op' = "try_new"
    /\ input' = s
    /\ generated' = try_new_generation(s, checks)
    /\ parsed' = generated'.electronic_reference
    /\ result' = try_new_parse(generated', checks)
    /\ UNCHANGED <<checks, second>>

Returned == op # "none" /\ result.kind = "Ok" /\ second = NoSecond

\* parse_str(&r.to_string()) of the reference r the first call returned
ParsePrintable ==
    /\ Returned
    /\ second' = [op |-> "parse_printable", input |-> to_string(result),
                  result |-> parse_str(to_string(result), checks)]
    /\ UNCHANGED <<checks, op, input, parsed, generated, result>>

\* parse_str(&r.to_electronic_string())
ParseElectronic ==
    /\ Returned
    /\ second' = [op |-> "parse_electronic", input |-> to_electronic_string(result),
                  result |-> parse_str(to_electronic_string(result), checks)]
    /\ UNCHANGED <<checks, op, input, parsed, generated, result>>

\* try_new of "RF00" and the body of the reference parse_str returned
Regenerate ==
    LET s == GEN_PREFIX \o SliceFrom(to_electronic_string(result), 4)
    IN  /\ Returned
        /\ op = "parse_str"
        /\ second' = [op |-> "regenerate", input |-> s, result |-> try_new(s, checks)]
        /\ UNCHANGED <<checks, op, input, parsed, generated, result>>

\* try_new of the first call's argument with its spaces set another way
TryNewRespaced(style) ==
    LET s == Spaced(convert_electronic(input), style)
    IN  /\ op = "try_new"
        /\ second = NoSecond
        /\ s # input
        /\ second' = [op |-> "try_new_respaced", input |-> s,
                      result |-> try_new(s, checks)]
        /\ UNCHANGED <<checks, op, input, parsed, generated, result>>

Next ==
    \/ \E s \in ParseStrInputs : ParseStr(s)
    \/ \E s \in TryNewInputs : TryNew(s)
    \/ ParsePrintable
    \/ ParseElectronic
    \/ Regenerate
    \/ \E style \in SpaceStyles : TryNewRespaced(style)

Spec == Init /\ [][Next]_vars

(***************************************************************************)
(* What the claims speak of                                                *)
(***************************************************************************)
RECURSIVE TenMod97(_)
\* 10^k modulo 97
TenMod97(k) == IF k = 0 THEN 1 ELSE (10 * TenMod97(k - 1)) % 97

RECURSIVE SequenceMod97(_, _, _)
\* The digits lo..hi of d, read as one decimal integer of unbounded size,
\* modulo 97.
SequenceMod97(d, lo, hi) ==
    IF lo > hi THEN 0
    ELSE IF lo = hi THEN d[lo] % 97
    ELSE (SequenceMod97(d, lo, (lo + hi) \div 2) * TenMod97(hi - (lo + hi) \div 2)
          + SequenceMod97(d, (lo + hi) \div 2 + 1, hi)) % 97

ValueMod97(d) == SequenceMod97(d, 1, Len(d))

IsAscii(s) == \A i \in 1..Len(s) : s[i] < 128

IsAsciiAlphanumeric(b) == IsDigit(b) \/ IsUpper(b) \/ IsLower(b)

Accepted == op # "none" /\ result.kind = "Ok"

\* The body of the reference parse_str worked on
ParsedBody == SliceFrom(convert_electronic(parsed), 4)

\* C1: the check-digit sequence of the space-stripped form of every string
\* parse_str accepts, read as one decimal integer of unbounded size, is
\* congruent to 1 modulo 97.
C1_Mod97Invariant ==
    Accepted =>
        ValueMod97(gen_check_digits(convert_electronic(parsed)).digits) = 1

\* C2: for every body of 1 to 21 characters of [0-9A-Za-z], try_new returns a
\* validated reference, and the positional-weight sum stays inside the range
\* of the accumulator.
C2_TryNewSucceedsOnEveryBody ==
    (/\ op = "try_new"
     /\ Len(input) \in 1..21
     /\ \A i \in 1..Len(input) : IsAsciiAlphanumeric(input[i])
     /\ ~starts_with(input, IDENTIFIER))
    => /\ result.kind = "Ok"
       /\ ~weighted_sum(gen_check_digits(GEN_PREFIX \o input).digits).overflow

\* C3: parse_str returns a validated reference or one of the four ParseError
\* values for every input, and never aborts the caller.
C3_ParseStrIsTotal ==
    op = "parse_str" =>
        \/ result.kind = "Ok"
        \/ result.kind = "Err" /\ result.err \in ParseErrors

\* C4: for every reference R returned by parse_str or try_new, parsing
\* R.to_string() and parsing R.to_electronic_string() both return R again, and
\* R.to_electronic_string() is the space-stripped form of the string that was
\* parsed.
C4_RoundTrip ==
    /\ second.op \in {"parse_printable", "parse_electronic"} =>
           /\ second.result.kind = "Ok"
           /\ second.result = result
    /\ Accepted => to_electronic_string(result) = convert_electronic(parsed)

C4_Witness ==
    /\ op = "try_new"
    /\ second.op = "parse_electronic"
    /\ second.result.kind = "Ok"
    /\ result.checksum < 10
    /\ \E i \in 1..Len(input) : input[i] = Ord(" ")

\* C5: for an input of ASCII characters with space-stripped form n, parse_str
\* returns InvalidFormat when n has at most 4 or more than 25 characters;
\* otherwise InvalidIdentifier when n does not start with "RF"; otherwise
\* InvalidCharacter when a character of n at index 4 or later is no ASCII
\* digit or letter; and none of the three when all three checks pass and the
\* characters at index 2-3 are ASCII digits.
C5_FormatChecksInOrder ==
    (op = "parse_str" /\ IsAscii(input)) =>
        LET n == convert_electronic(input)
            bad_length == Len(n) <= 4 \/ Len(n) > 25
            bad_identifier == <<n[1], n[2]>> # IDENTIFIER
            bad_character == \E i \in 5..Len(n) : ~IsAsciiAlphanumeric(n[i])
            digit_slot == IsDigit(n[3]) /\ IsDigit(n[4])
            returns(e) == result.kind = "Err" /\ result.err = e
        IN  /\ bad_length => returns("InvalidFormat")
            /\ (~bad_length /\ bad_identifier) => returns("InvalidIdentifier")
            /\ (~bad_length /\ ~bad_identifier /\ bad_character) =>
                   returns("InvalidCharacter")
            /\ (~bad_length /\ ~bad_identifier /\ ~bad_character /\ digit_slot) =>
                   ~(\/ returns("InvalidFormat")
                     \/ returns("InvalidIdentifier")
                     \/ returns("InvalidCharacter"))

\* A wrong identifier and a wrong character together: the identifier decides.
C5_Witness ==
    /\ op = "parse_str"
    /\ IsAscii(input)
    /\ Len(convert_electronic(input)) = 5
    /\ convert_electronic(input)[1] # Ord("R")
    /\ ~IsAsciiAlphanumeric(convert_electronic(input)[5])
    /\ result.err = "InvalidIdentifier"

\* C6: every checksum gen_checksum produces for a check-digit sequence built
\* with the placeholder checksum "00" is 98 minus the sequence's value mod 97,
\* and is at least 0 and less than 97.
C6_GeneratedChecksum ==
    (op = "try_new" /\ generated.early.kind = "None") =>
        /\ generated.checksum = 98 - ValueMod97(generated.check_digits)
        /\ 0 <= generated.checksum
        /\ generated.checksum < 97

\* C7: the printable string of every returned reference is "RF", the two
\* zero-padded checksum digits, one space, and the body in groups of 4
\* characters separated by single spaces, the last group having 1 to 4; no
\* leading, trailing or doubled space; the body characters in their order and
\* case.
C7_PrintableFormat ==
    Accepted =>
        LET p == result.creditor_reference
            body == ParsedBody
            n == Len(body)
        IN  /\ Len(p) = 5 + n + (n - 1) \div 4
            /\ <<p[1], p[2]>> = IDENTIFIER
            /\ p[3] = Ord("0") + (result.checksum \div 10)
            /\ p[4] = Ord("0") + (result.checksum % 10)
            /\ p[5] = Ord(" ")
            /\ \A k \in 1..n : p[5 + k + (k - 1) \div 4] = body[k]
            /\ \A q \in 6..Len(p) : (p[q] = Ord(" ")) <=> ((q - 5) % 5 = 0)

\* Five groups of 4 and a last group of 1.
C7_Witness ==
    /\ Accepted
    /\ Len(ParsedBody) = 21
    /\ result.creditor_reference[Len(result.creditor_reference) - 1] = Ord(" ")

\* C8: every ParseError parse_str returns carries the space-stripped
\* reference as its payload.
C8_ErrorPayload ==
    (op = "parse_str" /\ result.kind = "Err") =>
        result.payload = convert_electronic(input)

\* C9: try_new returns the same result for two inputs whose space-stripped
\* forms are equal.
C9_SpacesIrrelevantToGeneration ==
    second.op = "try_new_respaced" => second.result = result

\* C10: for every string parse_str accepts, with electronic form e,
\* try_new("RF00" + e[4..]) returns a reference equal to the parsed one.
C10_ParseAndGenerateAgree ==
    second.op = "regenerate" =>
        /\ second.result.kind = "Ok"
        /\ second.result = result

====
